---- MODULE Spec2Model ----
(***************************************************************************)
(* Model of two reconcilers of the cluster authentication operator:       *)
(*   - wellKnownReadyController.sync: looks up the authentication config  *)
(*     and the oauth route, probes the OAuth well-known endpoint on every *)
(*     kube-apiserver address and reports four operator conditions;       *)
(*   - authOperator.handleRoute: creates, validates and, when its spec is *)
(*     wrong, deletes the oauth route.                                    *)
(* A sync cycle is modelled as a sequential process: one step per call to *)
(* an external collaborator (lister, file system, HTTP transport, status  *)
(* client), each step drawing the collaborator's answer.                  *)
(***************************************************************************)
EXTENDS Integers, Sequences, FiniteSets, TLC

\* ------------------------------------------------------------------ bounds

\* Largest number of ready addresses in an endpoint subset.
MaxAddrs == 3
\* Largest number of not-ready addresses in an endpoint subset.
MaxNotReady == 1
\* Largest number of subsets in the kubernetes endpoints object.
MaxSubsets == 2

\* --------------------------------------------------------------- constants

\* kasServicePort after init(): KUBERNETES_SERVICE_PORT_HTTPS, or 443.
kasServicePort == 443
\* http status the probe accepts.
StatusOK == 200

\* Condition type names, as the sequence of their camel-case words, so that
\* strings.HasSuffix can be computed on them.
WellKnownRouteDegraded == <<"WellKnown", "Route", "Degraded">>
WellKnownAuthConfigDegraded == <<"WellKnown", "AuthConfig", "Degraded">>
WellKnownProgressing == <<"WellKnown", "Progressing">>
WellKnownAvailable == <<"WellKnown", "Available">>

knownConditionNames ==
  {WellKnownRouteDegraded, WellKnownAuthConfigDegraded,
   WellKnownProgressing, WellKnownAvailable}

\* knownConditionNames.List(): the names in sorted (byte) order.
knownConditionNamesList ==
  <<WellKnownAuthConfigDegraded, WellKnownAvailable,
    WellKnownProgressing, WellKnownRouteDegraded>>

ConditionTrue == "True"
ConditionFalse == "False"

\* ------------------------------------------------------------------ errors

\* A Go error value: nil, or an error of some kind whose Error() text is a
\* sequence of string chunks (their concatenation).
NilErr == [nil |-> TRUE, kind |-> "", text |-> <<>>]

\* fmt.Errorf(...): a plain error with the formatted text.
Errorf(chunks) == [nil |-> FALSE, kind |-> "Errorf", text |-> chunks]

\* What a lister answers for an object that is not in its cache:
\* k8s.io/apimachinery errors.NewNotFound, a *StatusError.
NotFoundErr(what) ==
  [nil |-> FALSE, kind |-> "NotFound", text |-> <<what, " not found">>]
\* An error for which os.IsNotExist is true (ENOENT, os.ErrNotExist).
OsNotExistErr == [nil |-> FALSE, kind |-> "OsNotExist", text |-> <<"file does not exist">>]
\* Any other failure of a lookup.
OtherErr == [nil |-> FALSE, kind |-> "Other", text |-> <<"cache index failure">>]

\* os.IsNotExist(err): true only of file-system "does not exist" errors; an
\* API StatusError with reason NotFound is not one of them.
osIsNotExist(e) == ~e.nil /\ e.kind = "OsNotExist"

\* ----------------------------------------------------------------- objects

NilAuth == [nil |-> TRUE, OAuthMetadataName |-> "", Type |-> ""]
AuthenticationTypeIntegratedOAuth == "IntegratedOAuth"
AuthConfigs ==
  [nil : {FALSE}, OAuthMetadataName : {"", "custom-metadata"},
   Type : {AuthenticationTypeIntegratedOAuth, "", "None"}]

Hosts == {"oauth.example.com", "oauth.other.net"}
NilRoute == [nil |-> TRUE, Host |-> ""]
Routes == [nil : {FALSE}, Host : Hosts]

\* Answers of authLister.Get("cluster").
AuthListerResults ==
  {[obj |-> a, err |-> NilErr] : a \in AuthConfigs}
  \cup {[obj |-> NilAuth, err |-> e] :
          e \in {NotFoundErr("authentication cluster"), OsNotExistErr, OtherErr}}

\* Answers of routeLister.Routes("openshift-authentication").Get("oauth-openshift").
RouteListerResults ==
  {[obj |-> r, err |-> NilErr] : r \in Routes}
  \cup {[obj |-> NilRoute, err |-> e] :
          e \in {NotFoundErr("route oauth-openshift"), OsNotExistErr, OtherErr}}

Condition(type, status, reason, message) ==
  [Type |-> type, Status |-> status, Reason |-> reason, Message |-> message]

Lookup(obj, conds) == [obj |-> obj, conds |-> conds]

\* A lookup that reports no condition, whatever the error.
getRouteSilent(res) ==
  IF ~res.err.nil THEN Lookup(NilRoute, <<>>) ELSE Lookup(res.obj, <<>>)

\* getRoute: the route and the conditions of its lookup.
getRoute(res) ==
  IF ~res.err.nil /\ osIsNotExist(res.err) THEN Lookup(NilRoute, <<>>)
  ELSE IF ~res.err.nil THEN
    Lookup(NilRoute,
           <<Condition(WellKnownRouteDegraded, ConditionTrue, "GetFailed",
                       <<"Unable to get oauth-openshift route: ">> \o res.err.text)>>)
  ELSE Lookup(res.obj, <<>>)

\* getAuthConfig: the authentication config and the conditions of its lookup.
getAuthConfig(res) ==
  IF ~res.err.nil /\ osIsNotExist(res.err) THEN Lookup(NilAuth, <<>>)
  ELSE IF ~res.err.nil THEN
    Lookup(NilAuth,
           <<Condition(WellKnownAuthConfigDegraded, ConditionTrue, "GetFailed",
                       <<"Unable to get cluster authentication config: ">> \o res.err.text)>>)
  ELSE Lookup(res.obj, <<>>)

\* ------------------------------------------------------ discovery document

\* JSON values as json.Unmarshal yields them in a map[string]interface{}:
\* a string (chunks of its text) or an array of strings.
JString(chunks) == [kind |-> "string", items |-> chunks]
JArray(items) == [kind |-> "array", items |-> items]

\* getOAuthMetadata(host) parsed by json.Unmarshal: the template's seven keys.
MetadataDoc(host) ==
  [issuer |-> JString(<<"https://", host>>),
   authorization_endpoint |-> JString(<<"https://", host, "/oauth/authorize">>),
   token_endpoint |-> JString(<<"https://", host, "/oauth/token">>),
   scopes_supported |->
     JArray(<<"user:check-access", "user:full", "user:info",
              "user:list-projects", "user:list-scoped-projects">>),
   response_types_supported |-> JArray(<<"code", "token">>),
   grant_types_supported |-> JArray(<<"authorization_code", "implicit">>),
   code_challenge_methods_supported |-> JArray(<<"plain", "S256">>)]

\* An expected document that ignores the route's host.
getMetadataStructFixedHost(r) == MetadataDoc("oauth.example.com")

\* getMetadataStruct(route): the document expected for the route's host.
getMetadataStruct(r) == MetadataDoc(r.Host)

\* Documents a kube-apiserver may serve at the well-known path: the document
\* of some host, one with two list entries swapped, one with a key missing.
ServedDocs ==
  {MetadataDoc(h) : h \in Hosts}
  \cup {[MetadataDoc(h) EXCEPT !.response_types_supported = JArray(<<"token", "code">>)] :
          h \in Hosts}
  \cup {[issuer |-> JString(<<"https://", h>>)] : h \in Hosts}

NoValues == [none |-> TRUE]

\* A response body: whether it can be read, whether it is a JSON object, and
\* the values json.Unmarshal then yields.
Bodies ==
  {[readable |-> FALSE, valid |-> FALSE, values |-> NoValues],
   [readable |-> TRUE, valid |-> FALSE, values |-> NoValues]}
  \cup {[readable |-> TRUE, valid |-> TRUE, values |-> d] : d \in ServedDocs}

NoBody == [readable |-> TRUE, valid |-> FALSE, values |-> NoValues]

\* Outcomes of rt.RoundTrip(req): a transport failure, or a response.
Responses ==
  {[transportErr |-> TRUE, StatusCode |-> 0, Status |-> "", Body |-> NoBody],
   [transportErr |-> FALSE, StatusCode |-> 503, Status |-> "503 Service Unavailable",
    Body |-> NoBody]}
  \cup {[transportErr |-> FALSE, StatusCode |-> StatusOK, Status |-> "200 OK", Body |-> b] :
          b \in Bodies}

Verdict(ready, msg, err) == [ready |-> ready, msg |-> msg, err |-> err]

\* A probe that reports a status other than 200 as an error.
checkWellknownEndpointReadyStatusAsError(apiIP, resp, r) ==
  IF resp.transportErr THEN
    Verdict(FALSE, <<>>, Errorf(<<"failed to GET well-known ", "wellKnownURL", ": transport error">>))
  ELSE IF resp.StatusCode # StatusOK THEN
    Verdict(FALSE, <<>>, Errorf(<<"got '", resp.Status, "' status">>))
  ELSE IF ~resp.Body.readable THEN
    Verdict(FALSE, <<>>, Errorf(<<"failed to read well-known ", "wellKnownURL", " body">>))
  ELSE IF ~resp.Body.valid THEN
    Verdict(FALSE, <<>>, Errorf(<<"failed to marshall well-known ", "wellKnownURL", " JSON">>))
  ELSE IF getMetadataStruct(r) # resp.Body.values THEN
    Verdict(FALSE,
            <<"the value returned by the well-known ", "wellKnownURL",
              " endpoint does not match expectations">>,
            NilErr)
  ELSE Verdict(TRUE, <<>>, NilErr)

\* checkWellknownEndpointReady: one GET of the well-known path at apiIP,
\* answered by resp. The URL in the messages is the chunk "wellKnownURL".
checkWellknownEndpointReady(apiIP, resp, r) ==
  IF resp.transportErr THEN
    Verdict(FALSE, <<>>, Errorf(<<"failed to GET well-known ", "wellKnownURL", ": transport error">>))
  ELSE IF resp.StatusCode # StatusOK THEN
    Verdict(FALSE,
            <<"got '", resp.Status,
              "' status while trying to GET the OAuth well-known ", "wellKnownURL",
              " endpoint data">>,
            NilErr)
  ELSE IF ~resp.Body.readable THEN
    Verdict(FALSE, <<>>, Errorf(<<"failed to read well-known ", "wellKnownURL", " body">>))
  ELSE IF ~resp.Body.valid THEN
    Verdict(FALSE, <<>>, Errorf(<<"failed to marshall well-known ", "wellKnownURL", " JSON">>))
  ELSE IF getMetadataStruct(r) # resp.Body.values THEN
    Verdict(FALSE,
            <<"the value returned by the well-known ", "wellKnownURL",
              " endpoint does not match expectations">>,
            NilErr)
  ELSE Verdict(TRUE, <<>>, NilErr)

\* -------------------------------------------------- service and endpoints

\* intstr.IntOrString and its IntValue(): the number, or Atoi of the string
\* (0 when the string is no number).
IntOrStrings ==
  {[Type |-> "Int", IntVal |-> 6443, StrVal |-> ""],
   [Type |-> "Int", IntVal |-> 8443, StrVal |-> ""],
   [Type |-> "Int", IntVal |-> 0, StrVal |-> ""],
   [Type |-> "String", IntVal |-> 0, StrVal |-> "https"],
   [Type |-> "String", IntVal |-> 0, StrVal |-> "6443"]}

Atoi(str) == IF str = "6443" THEN 6443 ELSE IF str = "8443" THEN 8443 ELSE 0

IntValue(v) == IF v.Type = "String" THEN Atoi(v.StrVal) ELSE v.IntVal

ProtocolTCP == "TCP"
ProtocolUDP == "UDP"

\* Ports a service may list.
ServicePorts ==
  [Port : {kasServicePort, 80}, Protocol : {ProtocolTCP, ProtocolUDP},
   TargetPort : IntOrStrings]

\* The kubernetes service's port lists the model draws: up to two ports.
ServicePortLists ==
  {<<>>} \cup {<<p>> : p \in ServicePorts}
  \cup {<<p, q>> : p \in {sp \in ServicePorts : sp.Port = 80 \/ sp.Protocol = ProtocolUDP},
                   q \in {sp \in ServicePorts : sp.Port = kasServicePort}}

ServiceListerResults ==
  {[found |-> TRUE, Ports |-> l] : l \in ServicePortLists}
  \cup {[found |-> FALSE, Ports |-> <<>>]}

PortResult(port, ok) == [port |-> port, ok |-> ok]

RECURSIVE scanServicePorts(_, _)
scanServicePorts(ports, i) ==
  IF i > Len(ports) THEN PortResult(0, FALSE)
  ELSE IF IntValue(ports[i].TargetPort) # 0
          /\ ports[i].Protocol = ProtocolTCP
          /\ ports[i].Port = kasServicePort
       THEN PortResult(IntValue(ports[i].TargetPort), TRUE)
       ELSE scanServicePorts(ports, i + 1)

\* getKASTargetPortFromService: the target port of the first TCP port of the
\* service that listens on kasServicePort and has a non-zero target.
getKASTargetPortFromService(service) == scanServicePorts(service.Ports, 1)

\* Ports an endpoint subset may carry.
EndpointPorts ==
  {[Port |-> 6443, Protocol |-> ProtocolTCP],
   [Port |-> 6443, Protocol |-> ProtocolUDP],
   [Port |-> 8443, Protocol |-> ProtocolTCP]}

\* Ready addresses of a subset: the first n of the pool 1, 2, ...
ReadyLists == {[i \in 1..n |-> i] : n \in 0..MaxAddrs}
\* Not-ready addresses of a subset: n addresses outside the ready pool.
NotReadyLists == {[i \in 1..n |-> 100 + i] : n \in 0..MaxNotReady}

Subsets ==
  [Ports : {<<p>> : p \in EndpointPorts}, Addresses : ReadyLists,
   NotReadyAddresses : NotReadyLists]

SubsetLists == UNION {[1..n -> Subsets] : n \in 0..MaxSubsets}

EndpointsListerResults ==
  {[found |-> TRUE, Subsets |-> l] : l \in SubsetLists}
  \cup {[found |-> FALSE, Subsets |-> <<>>]}

\* subsetHasKASTargetPort: some port of the subset is TCP and the target port.
subsetHasKASTargetPort(subset, targetPort) ==
  \E i \in 1..Len(subset.Ports) :
    subset.Ports[i].Protocol = ProtocolTCP /\ subset.Ports[i].Port = targetPort

\* net.JoinHostPort(address.IP, strconv.Itoa(targetPort)).
JoinHostPort(ip, port) == [IP |-> ip, Port |-> port]

IPsResult(ips, err) == [ips |-> ips, err |-> err]

\* A readiness test that accepts a subset with some ready address.
subsetNotReadyWhenEmpty(subset) == Len(subset.Addresses) = 0

\* The readiness test of the subset that exposes the target port.
subsetNotReady(subset) ==
  Len(subset.NotReadyAddresses) # 0 \/ Len(subset.Addresses) = 0

\* A scan that passes over a subset that is not ready and tries the next one.
RECURSIVE scanSubsetsSkippingNotReady(_, _, _)
scanSubsetsSkippingNotReady(subsets, targetPort, i) ==
  IF i > Len(subsets) THEN
    IPsResult(<<>>, Errorf(<<"unable to find kube api server endpointLister port: ", "kasEndpoint">>))
  ELSE IF ~subsetHasKASTargetPort(subsets[i], targetPort) \/ subsetNotReady(subsets[i]) THEN
    scanSubsetsSkippingNotReady(subsets, targetPort, i + 1)
  ELSE
    IPsResult([j \in 1..Len(subsets[i].Addresses) |->
                 JoinHostPort(subsets[i].Addresses[j], targetPort)],
              NilErr)

\* getAPIServerIPs' loop over kasEndpoint.Subsets, from subset i on.
RECURSIVE scanSubsets(_, _, _)
scanSubsets(subsets, targetPort, i) ==
  IF i > Len(subsets) THEN
    IPsResult(<<>>, Errorf(<<"unable to find kube api server endpointLister port: ", "kasEndpoint">>))
  ELSE IF ~subsetHasKASTargetPort(subsets[i], targetPort) THEN
    scanSubsets(subsets, targetPort, i + 1)
  ELSE IF subsetNotReady(subsets[i]) THEN
    IPsResult(<<>>, Errorf(<<"kube api server endpointLister is not ready: ", "kasEndpoint">>))
  ELSE
    IPsResult([j \in 1..Len(subsets[i].Addresses) |->
                 JoinHostPort(subsets[i].Addresses[j], targetPort)],
              NilErr)

\* getAPIServerIPs, first half: the service lookup and its target port.
getAPIServerIPsTargetPort(kasService) ==
  IF ~kasService.found THEN
    [port |-> 0, err |-> Errorf(<<"failed to get kube api server service: ", "not found">>)]
  ELSE IF ~getKASTargetPortFromService(kasService).ok THEN
    [port |-> 0,
     err |-> Errorf(<<"unable to find kube api server service target port: ", "kasService">>)]
  ELSE [port |-> getKASTargetPortFromService(kasService).port, err |-> NilErr]

\* getAPIServerIPs, second half: the endpoints lookup and the scan of its
\* subsets for the target port.
getAPIServerIPs(targetPort, kasEndpoint) ==
  IF ~kasEndpoint.found THEN
    IPsResult(<<>>, Errorf(<<"failed to get kube api server endpointLister: ", "not found">>))
  ELSE scanSubsets(kasEndpoint.Subsets, targetPort, 1)

\* ------------------------------------------------------------- the sync cycle

VARIABLES
  pc,                   \* position of the sync cycle
  authGet,              \* answer of authLister.Get in this cycle
  routeGet,             \* answer of routeLister.Get in this cycle
  authConfig,           \* sync's authConfig
  route,                \* sync's route
  foundConditions,      \* sync's foundConditions
  targetPort,           \* getAPIServerIPs' targetPort
  kasEndpoint,          \* getAPIServerIPs' kasEndpoint, until the cycle's next step
  ips,                  \* the addresses getAPIServerIPs returned
  ipsErr,               \* the error getAPIServerIPs returned
  probes,               \* the requests issued by the probe loop, with their answers
  verdict,              \* what isWellknownEndpointsReady returned
  updateConditionFuncs, \* the conditions handed to v1helpers.UpdateStatus
  updateCalls,          \* number of UpdateStatus calls of this cycle
  syncErr               \* what sync returned

VARIABLES
  ingress,       \* the cluster ingress config handed to handleRoute
  routeStore,    \* the oauth-openshift route in the API server
  nextUID,       \* the UID the API server gives the next created route
  rpc,           \* position of handleRoute: idle, or the API call it is about to issue
  observed,      \* handleRoute's route: the one its Get or its Create answered
  calls,         \* the API calls handleRoute issued in this run, or in its last one
  ret            \* what handleRoute returned; nothing while a run is under way

routeVars == <<ingress, routeStore, nextUID, rpc, observed, calls, ret>>

syncVars ==
  <<pc, authGet, routeGet, authConfig, route, foundConditions, targetPort,
    kasEndpoint, ips, ipsErr, probes, verdict, updateConditionFuncs,
    updateCalls, syncErr>>

NotRead == [obj |-> NilAuth, err |-> NilErr]
NoEndpoints == [found |-> FALSE, Subsets |-> <<>>]

\* The locals of a cycle that has not started.
SyncIdle ==
  /\ pc = "idle"
  /\ authGet = NotRead
  /\ routeGet = NotRead
  /\ authConfig = NilAuth
  /\ route = NilRoute
  /\ foundConditions = <<>>
  /\ targetPort = 0
  /\ kasEndpoint = NoEndpoints
  /\ ips = <<>>
  /\ ipsErr = NilErr
  /\ probes = <<>>
  /\ verdict = Verdict(FALSE, <<>>, NilErr)
  /\ updateConditionFuncs = <<>>
  /\ updateCalls = 0
  /\ syncErr = NilErr

\* v1helpers.FindOperatorCondition: the first condition of the type, if any.
HasCondition(conds, type) == \E i \in 1..Len(conds) : conds[i].Type = type
FindOperatorCondition(conds, type) ==
  conds[CHOOSE i \in 1..Len(conds) :
          /\ conds[i].Type = type
          /\ \A j \in 1..(i - 1) : conds[j].Type # type]

\* strings.HasSuffix on names given as word sequences.
HasSuffix(name, suffix) ==
  /\ Len(name) >= Len(suffix)
  /\ SubSeq(name, Len(name) - Len(suffix) + 1, Len(name)) = suffix

\* A default that forgets the "Available" exception.
defaultConditionAllFalse(conditionType) ==
  Condition(conditionType, ConditionFalse, "", <<>>)

\* The default of a condition type: False, or True for an "Available" type.
defaultCondition(conditionType) ==
  Condition(conditionType,
            IF HasSuffix(conditionType, <<"Available">>) THEN ConditionTrue
            ELSE ConditionFalse,
            "", <<>>)

\* The condition sync hands over for one known type.
updatedCondition(found, conditionType) ==
  IF HasCondition(found, conditionType)
  THEN FindOperatorCondition(found, conditionType)
  ELSE defaultCondition(conditionType)

\* An aggregation that hands over the findings as they are.
aggregateFoundOnly(found) == found

\* An aggregation that keeps the findings in the order they were made and
\* appends the defaults of the types without a finding.
aggregateFindingsFirst(found) ==
  found \o SelectSeq([i \in 1..Len(knownConditionNamesList) |->
                        defaultCondition(knownConditionNamesList[i])],
                     LAMBDA c : ~HasCondition(found, c.Type))

\* The loop over knownConditionNames.List() at the end of sync.
aggregate(found) ==
  [i \in 1..Len(knownConditionNamesList) |->
     updatedCondition(found, knownConditionNamesList[i])]

\* Conditions that report a message only, and drop a bare error.
notReadyConditionsMessageOnly(v) ==
  IF ~v.ready /\ Len(v.msg) > 0 THEN
    <<Condition(WellKnownProgressing, ConditionTrue, "NotReady",
                <<"The well-known endpoint is not yet avaiable: ">> \o v.msg),
      Condition(WellKnownAvailable, ConditionFalse, "NotReady",
                <<"THe well-known endpoint is not yet available: ">> \o v.msg)>>
  ELSE <<>>

\* Conditions that report Progressing and leave Available to its default.
notReadyConditionsProgressingOnly(v) ==
  LET conditionMessage ==
        IF Len(v.msg) = 0 /\ ~v.err.nil THEN v.err.text ELSE v.msg
  IN IF ~v.ready /\ Len(conditionMessage) > 0 THEN
       <<Condition(WellKnownProgressing, ConditionTrue, "NotReady",
                   <<"The well-known endpoint is not yet avaiable: ">> \o conditionMessage)>>
     ELSE <<>>

\* The conditions sync adds for a verification that returned v.
notReadyConditions(v) ==
  LET conditionMessage ==
        IF Len(v.msg) = 0 /\ ~v.err.nil THEN v.err.text ELSE v.msg
  IN IF ~v.ready /\ Len(conditionMessage) > 0 THEN
       <<Condition(WellKnownProgressing, ConditionTrue, "NotReady",
                   <<"The well-known endpoint is not yet avaiable: ">> \o conditionMessage),
         Condition(WellKnownAvailable, ConditionFalse, "NotReady",
                   <<"THe well-known endpoint is not yet available: ">> \o conditionMessage)>>
     ELSE <<>>

\* A skip that looks at the metadata reference only.
skipsVerificationCustomMetadataOnly(a) == Len(a.OAuthMetadataName) # 0

\* isWellknownEndpointsReady's first test: nothing to verify.
skipsVerification(a) ==
  Len(a.OAuthMetadataName) # 0 \/ a.Type # AuthenticationTypeIntegratedOAuth

\* A probe loop that leaves on errors only.
stopsProbingOnErrorOnly(v) == ~v.err.nil

\* The probe loop leaves at the first address that errors or is not ready.
stopsProbing(v) == ~v.err.nil \/ ~v.ready

\* sync calls getAuthConfig.
GetAuthConfigStep ==
  /\ pc = "idle"
  /\ \E res \in AuthListerResults :
       /\ authGet' = res
       /\ authConfig' = getAuthConfig(res).obj
       /\ foundConditions' = foundConditions \o getAuthConfig(res).conds
  /\ pc' = "getRoute"
  /\ UNCHANGED <<routeGet, route, targetPort, kasEndpoint, ips, ipsErr, probes,
                 verdict, updateConditionFuncs, updateCalls, syncErr>>
  /\ UNCHANGED routeVars

\* sync calls getRoute, and decides whether to verify.
GetRouteStep ==
  /\ pc = "getRoute"
  /\ \E res \in RouteListerResults :
       /\ routeGet' = res
       /\ route' = getRoute(res).obj
       /\ foundConditions' = foundConditions \o getRoute(res).conds
       /\ pc' = IF ~authConfig.nil /\ ~getRoute(res).obj.nil THEN "verify" ELSE "aggregate"
  /\ UNCHANGED <<authGet, authConfig, targetPort, kasEndpoint, ips, ipsErr, probes,
                 verdict, updateConditionFuncs, updateCalls, syncErr>>
  /\ UNCHANGED routeVars

\* isWellknownEndpointsReady up to the transport: the skip, the read of the
\* service account CA, the construction of the transport.
VerifyStep ==
  /\ pc = "verify"
  /\ IF skipsVerification(authConfig) THEN
       /\ verdict' = Verdict(TRUE, <<>>, NilErr)
       /\ pc' = "aggregate"
     ELSE \E trust \in {"ok", "noCA", "noTransport"} :
       /\ verdict' =
            IF trust = "noCA" THEN
              Verdict(FALSE, <<>>, Errorf(<<"failed to read SA ca.crt: ", "no such file">>))
            ELSE IF trust = "noTransport" THEN
              Verdict(FALSE, <<>>,
                      Errorf(<<"failed to build transport for SA ca.crt: ", "bad PEM">>))
            ELSE verdict
       /\ pc' = IF trust = "ok" THEN "getService" ELSE "aggregate"
  /\ UNCHANGED <<authGet, routeGet, authConfig, route, foundConditions, targetPort,
                 kasEndpoint, ips, ipsErr, probes, updateConditionFuncs, updateCalls,
                 syncErr>>
  /\ UNCHANGED routeVars

failedIPs(e) ==
  Verdict(FALSE, <<>>, Errorf(<<"failed to get API server IPs: ">> \o e.text))

\* A service lookup whose failure makes sync return at once with the error.
GetServiceStepReturningError ==
  /\ pc = "getService"
  /\ \E kasService \in ServiceListerResults :
       LET r == getAPIServerIPsTargetPort(kasService) IN
       /\ targetPort' = r.port
       /\ ipsErr' = r.err
       /\ verdict' = IF r.err.nil THEN verdict ELSE failedIPs(r.err)
       /\ syncErr' = IF r.err.nil THEN syncErr ELSE failedIPs(r.err).err
       /\ pc' = IF r.err.nil THEN "getEndpoints" ELSE "done"
  /\ UNCHANGED <<authGet, routeGet, authConfig, route, foundConditions, kasEndpoint,
                 ips, probes, updateConditionFuncs, updateCalls>>
  /\ UNCHANGED routeVars

\* getAPIServerIPs looks up the kubernetes service.
GetServiceStep ==
  /\ pc = "getService"
  /\ \E kasService \in ServiceListerResults :
       LET r == getAPIServerIPsTargetPort(kasService) IN
       /\ targetPort' = r.port
       /\ ipsErr' = r.err
       /\ verdict' = IF r.err.nil THEN verdict ELSE failedIPs(r.err)
       /\ pc' = IF r.err.nil THEN "getEndpoints" ELSE "aggregate"
  /\ UNCHANGED <<authGet, routeGet, authConfig, route, foundConditions, kasEndpoint,
                 ips, probes, updateConditionFuncs, updateCalls, syncErr>>
  /\ UNCHANGED routeVars

\* getAPIServerIPs looks up the kubernetes endpoints and returns.
GetEndpointsStep ==
  /\ pc = "getEndpoints"
  /\ \E res \in EndpointsListerResults :
       LET r == getAPIServerIPs(targetPort, res) IN
       /\ kasEndpoint' = res
       /\ ips' = r.ips
       /\ ipsErr' = r.err
       /\ verdict' = IF ~r.err.nil THEN failedIPs(r.err)
                     ELSE IF Len(r.ips) = 0 THEN Verdict(TRUE, <<>>, NilErr)
                     ELSE verdict
       /\ pc' = IF r.err.nil /\ Len(r.ips) > 0 THEN "probe" ELSE "aggregate"
  /\ UNCHANGED <<authGet, routeGet, authConfig, route, foundConditions, targetPort,
                 probes, updateConditionFuncs, updateCalls, syncErr>>
  /\ UNCHANGED routeVars

\* One pass of the probe loop: the request to the next address.
ProbeStep ==
  /\ pc = "probe"
  /\ Len(probes) < Len(ips)
  /\ \E resp \in Responses :
       LET ip == ips[Len(probes) + 1]
           v == checkWellknownEndpointReady(ip, resp, route)
       IN /\ probes' = Append(probes, [ip |-> ip, resp |-> resp])
          /\ IF stopsProbing(v) THEN
               /\ verdict' = v
               /\ pc' = "aggregate"
             ELSE IF Len(probes) + 1 = Len(ips) THEN
               /\ verdict' = Verdict(TRUE, <<>>, NilErr)
               /\ pc' = "aggregate"
             ELSE
               /\ verdict' = verdict
               /\ pc' = "probe"
  /\ kasEndpoint' = NoEndpoints
  /\ UNCHANGED <<authGet, routeGet, authConfig, route, foundConditions, targetPort,
                 ips, ipsErr, updateConditionFuncs, updateCalls, syncErr>>
  /\ UNCHANGED routeVars

\* The end of sync: the not-ready conditions, the aggregation, UpdateStatus.
UpdateStatusStep ==
  /\ pc = "aggregate"
  /\ LET found ==
           IF ~authConfig.nil /\ ~route.nil
           THEN foundConditions \o notReadyConditions(verdict)
           ELSE foundConditions
     IN /\ foundConditions' = found
        /\ updateConditionFuncs' = aggregate(found)
  /\ updateCalls' = updateCalls + 1
  /\ \E e \in {NilErr, [nil |-> FALSE, kind |-> "Conflict", text |-> <<"conflict">>]} :
       syncErr' = e
  /\ kasEndpoint' = NoEndpoints
  /\ pc' = "done"
  /\ UNCHANGED <<authGet, routeGet, authConfig, route, targetPort, ips, ipsErr,
                 probes, verdict>>
  /\ UNCHANGED routeVars

\* The next trigger (informer event or the 30 s resync): a new cycle with
\* fresh locals.
ResyncStep ==
  /\ pc = "done"
  /\ pc' = "idle"
  /\ authGet' = NotRead
  /\ routeGet' = NotRead
  /\ authConfig' = NilAuth
  /\ route' = NilRoute
  /\ foundConditions' = <<>>
  /\ targetPort' = 0
  /\ kasEndpoint' = NoEndpoints
  /\ ips' = <<>>
  /\ ipsErr' = NilErr
  /\ probes' = <<>>
  /\ verdict' = Verdict(FALSE, <<>>, NilErr)
  /\ updateConditionFuncs' = <<>>
  /\ updateCalls' = 0
  /\ syncErr' = NilErr
  /\ UNCHANGED routeVars

vars == <<syncVars, routeVars>>

\* ---------------------------------------------------------- the oauth route

\* Largest number of entries in a route's status.ingress.
MaxIngress == 2
\* Largest number of routes the API server creates in one behaviour.
MaxCreates == 2

\* Names and numbers the operator package defines next to handleRoute.
targetName == "oauth-openshift"
containerPort == 6443

TLSTerminationPassthrough == "passthrough"
TLSTerminationEdge == "edge"
InsecureEdgeTerminationPolicyRedirect == "Redirect"
InsecureEdgeTerminationPolicyNone == "None"
RouteAdmitted == "Admitted"

IngressDomains == {"apps.example.com", "apps.other.net"}

\* ingressToHost: targetName + "." + ingress.Spec.Domain, as chunks.
ingressToHost(ing) == <<targetName, ".", ing.Domain>>

NilPort == [nil |-> TRUE, TargetPort |-> [Type |-> "Int", IntVal |-> 0, StrVal |-> ""]]
RoutePort(v) == [nil |-> FALSE, TargetPort |-> v]
FromInt(n) == [Type |-> "Int", IntVal |-> n, StrVal |-> ""]

NilTLS == [nil |-> TRUE, Termination |-> "", InsecureEdgeTerminationPolicy |-> ""]
TLSConfig(t, p) == [nil |-> FALSE, Termination |-> t, InsecureEdgeTerminationPolicy |-> p]

NoRoute ==
  [nil |-> TRUE, Name |-> "", UID |-> 0, Host |-> <<>>, ToName |-> "", Port |-> NilPort,
   TLS |-> NilTLS, Ingress |-> <<>>]

\* defaultRoute(ingress): the route the operator wants. The API server adds
\* the UID when it creates it.
defaultRoute(ing) ==
  [nil |-> FALSE, Name |-> targetName, UID |-> 0, Host |-> ingressToHost(ing),
   ToName |-> targetName, Port |-> RoutePort(FromInt(containerPort)),
   TLS |-> TLSConfig(TLSTerminationPassthrough, InsecureEdgeTerminationPolicyRedirect),
   Ingress |-> <<>>]

\* An admission test that takes an Admitted condition of any status.
isIngressAdmittedAnyStatus(entry) ==
  \E i \in 1..Len(entry.Conditions) : entry.Conditions[i].Type = RouteAdmitted

\* isIngressAdmitted: some condition of the entry is Admitted with status True.
isIngressAdmitted(entry) ==
  \E i \in 1..Len(entry.Conditions) :
    entry.Conditions[i].Type = RouteAdmitted /\ entry.Conditions[i].Status = ConditionTrue

\* getCanonicalHost: the desired host when some status entry has it and is
\* admitted, the empty string otherwise.
getCanonicalHost(r, ing) ==
  IF \E i \in 1..Len(r.Ingress) :
       r.Ingress[i].Host = ingressToHost(ing) /\ isIngressAdmitted(r.Ingress[i])
  THEN ingressToHost(ing)
  ELSE <<>>

\* A nil-pointer dereference: the Go runtime panics and handleRoute does not
\* return.
Panic == [nil |-> FALSE, kind |-> "panic", text |-> <<"invalid memory address or nil pointer dereference">>]

\* A validation that expects another port than the one defaultRoute sets.
isValidRouteOtherPort(r, ing) ==
  LET expectedRoute == defaultRoute(ing)
  IN IF r.ToName # expectedRoute.ToName THEN
       Errorf(<<"route targets a wrong service - needs ", expectedRoute.ToName>>)
     ELSE IF r.Port.nil THEN Panic
     ELSE IF IntValue(r.Port.TargetPort) # 8443 THEN
       Errorf(<<"expected port '", "8443", "' for route">>)
     ELSE IF r.TLS.nil THEN
       Errorf(<<"TLS needs to be configured for route">>)
     ELSE IF r.TLS.Termination # expectedRoute.TLS.Termination THEN
       Errorf(<<"route contains wrong TLS termination - '", expectedRoute.TLS.Termination,
                "' is required">>)
     ELSE IF r.TLS.InsecureEdgeTerminationPolicy
               # expectedRoute.TLS.InsecureEdgeTerminationPolicy THEN
       Errorf(<<"route contains wrong insecure termination policy - '",
                expectedRoute.TLS.InsecureEdgeTerminationPolicy, "' is required">>)
     ELSE NilErr

\* isValidRoute: nil, or the first mismatch with the default route. Reading
\* route.Spec.Port.TargetPort of a route without a port panics.
isValidRoute(r, ing) ==
  LET expectedRoute == defaultRoute(ing)
      expName == expectedRoute.ToName
      expPort == IntValue(expectedRoute.Port.TargetPort)
      expTLSTermination == expectedRoute.TLS.Termination
      expInsecureEdgeTerminationPolicy == expectedRoute.TLS.InsecureEdgeTerminationPolicy
  IN IF r.ToName # expName THEN
       Errorf(<<"route targets a wrong service - needs ", expName>>)
     ELSE IF r.Port.nil THEN Panic
     ELSE IF IntValue(r.Port.TargetPort) # expPort THEN
       Errorf(<<"expected port '", "containerPort", "' for route">>)
     ELSE IF r.TLS.nil THEN
       Errorf(<<"TLS needs to be configured for route">>)
     ELSE IF r.TLS.Termination # expTLSTermination THEN
       Errorf(<<"route contains wrong TLS termination - '", expTLSTermination,
                "' is required">>)
     ELSE IF r.TLS.InsecureEdgeTerminationPolicy # expInsecureEdgeTerminationPolicy THEN
       Errorf(<<"route contains wrong insecure termination policy - '",
                expInsecureEdgeTerminationPolicy, "' is required">>)
     ELSE NilErr

\* --- the routes, secrets and call outcomes the model draws

AdmissionConditions ==
  {<<>>,
   <<[Type |-> RouteAdmitted, Status |-> ConditionTrue]>>,
   <<[Type |-> RouteAdmitted, Status |-> ConditionFalse]>>}

RouteHosts == {ingressToHost([Domain |-> d]) : d \in IngressDomains}

IngressEntries == [Host : RouteHosts, Conditions : AdmissionConditions]
IngressLists == UNION {[1..n -> IngressEntries] : n \in 0..MaxIngress}

RouteTargetPorts ==
  {FromInt(containerPort), FromInt(8443),
   [Type |-> "String", IntVal |-> 0, StrVal |-> "6443"],
   [Type |-> "String", IntVal |-> 0, StrVal |-> "https"]}

\* The routes another actor may have left under the operator's route name.
ObservedRoutes ==
  [nil : {FALSE}, Name : {targetName}, UID : {1}, Host : RouteHosts,
   ToName : {targetName, "other-service"},
   Port : {NilPort} \cup {RoutePort(v) : v \in RouteTargetPorts},
   TLS : {NilTLS}
         \cup {TLSConfig(t, p) :
                 t \in {TLSTerminationPassthrough, TLSTerminationEdge},
                 p \in {InsecureEdgeTerminationPolicyRedirect,
                        InsecureEdgeTerminationPolicyNone}},
   Ingress : IngressLists]

NoSecret == [nil |-> TRUE, Data |-> {}]
\* Answers of secrets.Get(routerCertsLocalName): absent, empty, with data.
SecretResults ==
  {[obj |-> NoSecret, err |-> NotFoundErr("secret v4-0-config-system-router-certs")],
   [obj |-> [nil |-> FALSE, Data |-> {}], err |-> NilErr],
   [obj |-> [nil |-> FALSE, Data |-> {"apps.example.com"}], err |-> NilErr]}

Call(op, uid) == [op |-> op, uid |-> uid]
Ret(r, secret, err) == [route |-> r, secret |-> secret, err |-> err]

RouteInit ==
  /\ ingress \in [Domain : IngressDomains]
  /\ routeStore \in {NoRoute} \cup ObservedRoutes
  /\ nextUID = 2
  /\ rpc = "idle"
  /\ observed = NoRoute
  /\ calls = <<>>
  /\ ret = Ret(NoRoute, NoSecret, NilErr)

\* An end of handleRoute that takes a router secret without data.
routerSecretResultAcceptingEmpty(r, sec) ==
  IF ~sec.err.nil THEN Ret(NoRoute, NoSecret, sec.err)
  ELSE Ret(r, sec.obj, NilErr)

\* The end of handleRoute: what it returns for the route r that passed
\* admission and validation and the answer sec of the router secret's Get.
routerSecretResult(r, sec) ==
  IF ~sec.err.nil THEN Ret(NoRoute, NoSecret, sec.err)
  ELSE IF Cardinality(sec.obj.Data) = 0 THEN
    Ret(NoRoute, NoSecret, Errorf(<<"router secret is empty">>))
  ELSE Ret(r, sec.obj, NilErr)

\* The value of ret while handleRoute has not returned.
NotReturned == Ret(NoRoute, NoSecret, NilErr)

\* What Create answers when a route of that name exists.
AlreadyExistsErr ==
  [nil |-> FALSE, kind |-> "AlreadyExists", text |-> <<"routes oauth-openshift already exists">>]

\* handleRoute between its API calls, with the route r in hand: the admission
\* check and the validation. next is the call that follows ("delete" of an
\* invalid route, "secret" for a valid one) or "idle" when handleRoute
\* returns (or panics) with err at once.
routeDecision(r, ing) ==
  LET host == getCanonicalHost(r, ing)
      copy == [r EXCEPT !.Host = host]
      invalid == isValidRoute(copy, ing)
  IN IF Len(host) = 0 THEN
       [next |-> "idle",
        err |-> Errorf(<<"route is not available at canonical host ">> \o ingressToHost(ing))]
     ELSE IF invalid = Panic THEN [next |-> "idle", err |-> Panic]
     ELSE IF ~invalid.nil THEN [next |-> "delete", err |-> invalid]
     ELSE [next |-> "secret", err |-> NilErr]

\* handleRoute goes on with the route r its Get or Create answered, having
\* issued the calls issued.
routeInHand(r, issued) ==
  /\ observed' = r
  /\ calls' = issued
  /\ rpc' = routeDecision(r, ingress).next
  /\ ret' = IF routeDecision(r, ingress).next = "idle"
            THEN Ret(NoRoute, NoSecret, routeDecision(r, ingress).err)
            ELSE NotReturned

\* handleRoute starts: c.route.Get(targetName). GetOKs: the outcomes the call
\* may have (TRUE: it succeeds; the NotFound of an absent route counts as
\* succeeding).
getRouteCall(GetOKs) ==
  /\ rpc = "idle"
  /\ \E getOK \in GetOKs :
       IF ~getOK THEN
         /\ observed' = NoRoute
         /\ calls' = <<Call("Get", 0)>>
         /\ rpc' = "idle"
         /\ ret' = Ret(NoRoute, NoSecret, OtherErr)
       ELSE IF routeStore.nil THEN
         /\ observed' = NoRoute
         /\ calls' = <<Call("Get", 0)>>
         /\ rpc' = "create"
         /\ ret' = NotReturned
       ELSE routeInHand(routeStore, <<Call("Get", 0)>>)
  /\ UNCHANGED <<routeStore, nextUID, ingress>>
  /\ UNCHANGED syncVars

\* c.route.Create(defaultRoute(ingress)) after a Get that answered NotFound.
createRouteCall(CreateOKs) ==
  /\ rpc = "create"
  /\ \E createOK \in CreateOKs :
       IF ~createOK \/ ~routeStore.nil THEN
         /\ observed' = NoRoute
         /\ calls' = Append(calls, Call("Create", 0))
         /\ rpc' = "idle"
         /\ ret' = Ret(NoRoute, NoSecret,
                       IF ~routeStore.nil THEN AlreadyExistsErr ELSE OtherErr)
         /\ UNCHANGED <<routeStore, nextUID>>
       ELSE
         /\ nextUID <= MaxCreates + 1
         /\ routeStore' = [defaultRoute(ingress) EXCEPT !.UID = nextUID]
         /\ nextUID' = nextUID + 1
         /\ routeInHand([defaultRoute(ingress) EXCEPT !.UID = nextUID],
                        Append(calls, Call("Create", 0)))
  /\ UNCHANGED ingress
  /\ UNCHANGED syncVars

\* A reconciler that repairs an invalid route in place instead of deleting it.
updateRouteCall(DeleteOKs) ==
  /\ rpc = "delete"
  /\ \E deleteOK \in DeleteOKs :
       routeStore' =
         IF deleteOK /\ ~routeStore.nil /\ routeStore.UID = observed.UID
         THEN [routeStore EXCEPT !.ToName = defaultRoute(ingress).ToName,
                                 !.Port = defaultRoute(ingress).Port,
                                 !.TLS = defaultRoute(ingress).TLS]
         ELSE routeStore
  /\ calls' = Append(calls, Call("Update", observed.UID))
  /\ ret' = Ret(NoRoute, NoSecret, routeDecision(observed, ingress).err)
  /\ rpc' = "idle"
  /\ UNCHANGED <<nextUID, observed, ingress>>
  /\ UNCHANGED syncVars

\* c.route.Delete(route.Name, Preconditions{UID: &route.UID}) of the invalid
\* route in hand. The API server removes the route it holds only if the call
\* succeeds and the UID is that route's; handleRoute returns the validation
\* error whatever the delete answered.
deleteRouteCall(DeleteOKs) ==
  /\ rpc = "delete"
  /\ \E deleteOK \in DeleteOKs :
       routeStore' =
         IF deleteOK /\ ~routeStore.nil /\ routeStore.UID = observed.UID
         THEN NoRoute
         ELSE routeStore
  /\ calls' = Append(calls, Call("Delete", observed.UID))
  /\ ret' = Ret(NoRoute, NoSecret, routeDecision(observed, ingress).err)
  /\ rpc' = "idle"
  /\ UNCHANGED <<nextUID, observed, ingress>>
  /\ UNCHANGED syncVars

\* c.secrets.Get(routerCertsLocalName) for the valid route in hand, and the
\* return of handleRoute. The route returned is the copy whose host is the
\* canonical one.
getSecretCall ==
  /\ rpc = "secret"
  /\ \E sec \in SecretResults :
       ret' = routerSecretResult(
                [observed EXCEPT !.Host = getCanonicalHost(observed, ingress)], sec)
  /\ calls' = Append(calls, Call("GetSecret", 0))
  /\ rpc' = "idle"
  /\ UNCHANGED <<routeStore, nextUID, observed, ingress>>
  /\ UNCHANGED syncVars

\* handleRoute(ingress), one API call per step; between two of its calls
\* other clients of the API server may write the route. GetOKs, CreateOKs,
\* DeleteOKs: the outcomes its calls may have.
handleRoute(GetOKs, CreateOKs, DeleteOKs) ==
  \/ getRouteCall(GetOKs)
  \/ createRouteCall(CreateOKs)
  \/ deleteRouteCall(DeleteOKs)
  \/ getSecretCall

\* A reconcile cycle of the operator runs handleRoute; any of its API calls
\* may fail.
HandleRoute == handleRoute(BOOLEAN, BOOLEAN, BOOLEAN)

\* A router admits the route at the host of its spec, adding its entry to
\* the route's status.
RouterAdmit ==
  /\ ~routeStore.nil
  /\ ~\E i \in 1..Len(routeStore.Ingress) :
        /\ routeStore.Ingress[i].Host = routeStore.Host
        /\ isIngressAdmitted(routeStore.Ingress[i])
  /\ routeStore' =
       [routeStore EXCEPT !.Ingress =
          Append(@, [Host |-> routeStore.Host,
                     Conditions |-> <<[Type |-> RouteAdmitted, Status |-> ConditionTrue]>>])]
  /\ UNCHANGED <<ingress, nextUID, rpc, observed, calls, ret>>
  /\ UNCHANGED syncVars

\* The sync cycle alone: the route reconciler does not run.
RouteParked ==
  /\ ingress = [Domain |-> "apps.example.com"]
  /\ routeStore = NoRoute
  /\ nextUID = 2
  /\ rpc = "idle"
  /\ observed = NoRoute
  /\ calls = <<>>
  /\ ret = Ret(NoRoute, NoSecret, NilErr)

Init == SyncIdle /\ RouteParked

Next ==
  \/ GetAuthConfigStep
  \/ GetRouteStep
  \/ VerifyStep
  \/ GetServiceStep
  \/ GetEndpointsStep
  \/ ProbeStep
  \/ UpdateStatusStep
  \/ ResyncStep

Spec == Init /\ [][Next]_vars

\* The route reconciler alone, from any route under the operator's name.
RouteSpecInit == SyncIdle /\ RouteInit

RouteNext == HandleRoute \/ RouterAdmit

RouteSpec == RouteSpecInit /\ [][RouteNext]_vars

\* A step of a reconcile cycle whose API calls all succeed.
HandleRouteOK == handleRoute({TRUE}, {TRUE}, {TRUE})

RouteLiveNext == HandleRouteOK \/ RouterAdmit

\* The route reconciler when its API calls succeed, reconcile cycles keep
\* being triggered and the router keeps admitting what it can.
RouteLiveSpec ==
  /\ RouteSpecInit
  /\ [][RouteLiveNext]_vars
  /\ WF_vars(HandleRouteOK)
  /\ WF_vars(RouterAdmit)

\* ------------------------------------------------------------------ claims

\* The condition of a type in the list handed to the status update.
Handed(type) ==
  updateConditionFuncs[CHOOSE i \in 1..Len(updateConditionFuncs) :
                         updateConditionFuncs[i].Type = type]

\* C1. Total coverage: whatever the lookups and probes of a cycle found, the
\* list handed to the status update holds exactly one condition of each of
\* the four known types and no condition of another type.
C1_TotalCoverage ==
  pc = "done" =>
    /\ Len(updateConditionFuncs) = 4
    /\ \A t \in {WellKnownRouteDegraded, WellKnownAuthConfigDegraded,
                 WellKnownProgressing, WellKnownAvailable} :
         Cardinality({i \in 1..Len(updateConditionFuncs) :
                        updateConditionFuncs[i].Type = t}) = 1

\* A cycle with no finding at all has handed over its conditions.
C1_Witness == pc = "done" /\ foundConditions = <<>> /\ updateCalls = 1

\* C2. Aggregation defaulting: the condition handed over for a known type is
\* the finding of that type when the cycle has one; otherwise its status is
\* False, or True for a type whose name ends in "Available". Findings of
\* other types do not matter.
C2_AggregationDefaulting ==
  pc = "done" =>
    \A t \in knownConditionNames :
      /\ \E i \in 1..Len(updateConditionFuncs) : updateConditionFuncs[i].Type = t
      /\ IF \E j \in 1..Len(foundConditions) : foundConditions[j].Type = t
         THEN \E j \in 1..Len(foundConditions) :
                /\ foundConditions[j].Type = t
                /\ \A k \in 1..(j - 1) : foundConditions[k].Type # t
                /\ Handed(t) = foundConditions[j]
         ELSE /\ Handed(t).Type = t
              /\ Handed(t).Status =
                   IF t[Len(t)] = "Available" THEN ConditionTrue ELSE ConditionFalse

\* A cycle that found a Progressing condition and no route-degraded one:
\* one type comes from a finding, another from its default.
C2_Witness ==
  /\ pc = "done"
  /\ \E j \in 1..Len(foundConditions) : foundConditions[j].Type = WellKnownProgressing
  /\ ~\E j \in 1..Len(foundConditions) : foundConditions[j].Type = WellKnownRouteDegraded

\* The first subset of the endpoints that exposes the target port, if any.
HasTargetSubset(ep, port) ==
  \E i \in 1..Len(ep.Subsets) :
    \E k \in 1..Len(ep.Subsets[i].Ports) :
      ep.Subsets[i].Ports[k].Protocol = "TCP" /\ ep.Subsets[i].Ports[k].Port = port
FirstTargetSubset(ep, port) ==
  ep.Subsets[CHOOSE i \in 1..Len(ep.Subsets) :
               /\ \E k \in 1..Len(ep.Subsets[i].Ports) :
                    /\ ep.Subsets[i].Ports[k].Protocol = "TCP"
                    /\ ep.Subsets[i].Ports[k].Port = port
               /\ \A j \in 1..(i - 1) :
                    ~\E k \in 1..Len(ep.Subsets[j].Ports) :
                       /\ ep.Subsets[j].Ports[k].Protocol = "TCP"
                       /\ ep.Subsets[j].Ports[k].Port = port]

\* C3. All-or-nothing readiness: when the first subset exposing the target
\* port has a not-ready address, or no ready address, address resolution
\* returns the not-ready error and no address, however many addresses of
\* the subset are ready; no address is probed.
C3_AllOrNothing ==
  (kasEndpoint.found /\ HasTargetSubset(kasEndpoint, targetPort)
   /\ (Len(FirstTargetSubset(kasEndpoint, targetPort).NotReadyAddresses) >= 1
       \/ Len(FirstTargetSubset(kasEndpoint, targetPort).Addresses) = 0))
  => /\ ips = <<>>
     /\ ~ipsErr.nil
     /\ ipsErr.text[1] = "kube api server endpointLister is not ready: "
     /\ probes = <<>>
     /\ pc = "aggregate"

\* Address resolution has answered for a subset with one not-ready and two
\* ready addresses.
C3_Witness ==
  /\ kasEndpoint.found
  /\ HasTargetSubset(kasEndpoint, targetPort)
  /\ Len(FirstTargetSubset(kasEndpoint, targetPort).NotReadyAddresses) = 1
  /\ Len(FirstTargetSubset(kasEndpoint, targetPort).Addresses) = 2
  /\ ~ipsErr.nil

\* An answer that makes an address ready: 200 and the document of the host.
GoodAnswer(resp, host) ==
  /\ ~resp.transportErr
  /\ resp.StatusCode = 200
  /\ resp.Body.readable
  /\ resp.Body.valid
  /\ resp.Body.values = MetadataDoc(host)

\* C4. Fail-fast probe: the addresses are probed in list order; after a probe
\* that errors or is not ready no later address is probed, and verification
\* returns what that probe returned.
C4_FailFast ==
  /\ Len(probes) <= Len(ips)
  /\ \A i \in 1..Len(probes) : probes[i].ip = ips[i]
  /\ \A i \in 1..(Len(probes) - 1) : GoodAnswer(probes[i].resp, route.Host)
  /\ (probes # <<>> /\ ~GoodAnswer(probes[Len(probes)].resp, route.Host))
       => /\ pc \in {"aggregate", "done"}
          /\ verdict = checkWellknownEndpointReady(probes[Len(probes)].ip,
                                                   probes[Len(probes)].resp, route)
          /\ ~verdict.ready

\* Three addresses, the first one failed, the cycle ended after one request.
C4_Witness ==
  /\ pc = "done"
  /\ Len(ips) = 3
  /\ Len(probes) = 1
  /\ ~GoodAnswer(probes[1].resp, route.Host)

\* The cause sync reports for a verification that did not succeed.
Cause == IF Len(verdict.msg) = 0 THEN verdict.err.text ELSE verdict.msg

\* C7. Not-ready reporting: when both objects were found and verification did
\* not succeed, whatever the cause, the conditions handed over are
\* Progressing=True and Available=False, each with a message that ends with
\* the cause, and both degraded conditions are False.
C7_NotReadyReporting ==
  (pc = "done" /\ authGet.err.nil /\ routeGet.err.nil /\ ~verdict.ready)
  => /\ Handed(WellKnownProgressing).Status = ConditionTrue
     /\ Handed(WellKnownAvailable).Status = ConditionFalse
     /\ Len(Cause) > 0
     /\ Handed(WellKnownProgressing).Message
          = <<"The well-known endpoint is not yet avaiable: ">> \o Cause
     /\ Handed(WellKnownAvailable).Message
          = <<"THe well-known endpoint is not yet available: ">> \o Cause
     /\ Handed(WellKnownRouteDegraded).Status = ConditionFalse
     /\ Handed(WellKnownAuthConfigDegraded).Status = ConditionFalse

\* A cycle ended after address resolution found the pool not ready.
C7_Witness ==
  /\ pc = "done"
  /\ authGet.err.nil /\ routeGet.err.nil
  /\ ~verdict.ready
  /\ ~ipsErr.nil
  /\ ipsErr.text[1] = "kube api server endpointLister is not ready: "

\* C8. Happy path: both objects found, the pool resolved to its addresses and
\* every address answered 200 with the document of the route's host: the
\* conditions handed over are Available=True, Progressing=False and both
\* degraded conditions False.
C8_HappyPath ==
  (/\ pc = "done"
   /\ authGet.err.nil /\ routeGet.err.nil
   /\ ipsErr.nil /\ Len(ips) > 0
   /\ Len(probes) = Len(ips)
   /\ \A i \in 1..Len(probes) : GoodAnswer(probes[i].resp, route.Host))
  => /\ Handed(WellKnownAvailable).Status = ConditionTrue
     /\ Handed(WellKnownProgressing).Status = ConditionFalse
     /\ Handed(WellKnownRouteDegraded).Status = ConditionFalse
     /\ Handed(WellKnownAuthConfigDegraded).Status = ConditionFalse

\* Two ready addresses of a route at the second host, both serving its
\* document.
C8_Witness ==
  /\ pc = "done"
  /\ route.Host = "oauth.other.net"
  /\ Len(ips) = 2
  /\ Len(probes) = 2
  /\ \A i \in 1..2 : GoodAnswer(probes[i].resp, route.Host)

\* The lister's answer for an object that does not exist.
Absent(get) == ~get.err.nil /\ get.err.kind = "NotFound"

\* C9. Absent prerequisite: when the authentication config or the route does
\* not exist, its lookup emits no condition (its degraded condition is not
\* True in the end), no address is probed, and the status update still runs.
C9_AbsentPrerequisite ==
  pc = "done" =>
    /\ Absent(authGet) =>
         /\ ~\E j \in 1..Len(foundConditions) :
               foundConditions[j].Type = WellKnownAuthConfigDegraded
         /\ Handed(WellKnownAuthConfigDegraded).Status # ConditionTrue
    /\ Absent(routeGet) =>
         /\ ~\E j \in 1..Len(foundConditions) :
               foundConditions[j].Type = WellKnownRouteDegraded
         /\ Handed(WellKnownRouteDegraded).Status # ConditionTrue
    /\ (Absent(authGet) \/ Absent(routeGet)) => (probes = <<>> /\ updateCalls = 1)

\* C10. Retrieval fault: a lookup that fails for another reason than absence
\* ends as the degraded condition of its object, True with reason GetFailed
\* and a message that carries the error; the other lookup has been made and
\* the status update has run once.
C10_RetrievalFault ==
  pc = "done" =>
    /\ (~routeGet.err.nil /\ routeGet.err.kind = "Other") =>
         /\ Handed(WellKnownRouteDegraded) =
              Condition(WellKnownRouteDegraded, ConditionTrue, "GetFailed",
                        <<"Unable to get oauth-openshift route: ">> \o routeGet.err.text)
         /\ authGet \in AuthListerResults
         /\ updateCalls = 1
    /\ (~authGet.err.nil /\ authGet.err.kind = "Other") =>
         /\ Handed(WellKnownAuthConfigDegraded) =
              Condition(WellKnownAuthConfigDegraded, ConditionTrue, "GetFailed",
                        <<"Unable to get cluster authentication config: ">>
                        \o authGet.err.text)
         /\ routeGet \in RouteListerResults
         /\ updateCalls = 1

\* The route lookup failed, the authentication config was found, and the
\* cycle ended with the status update.
C10_Witness ==
  /\ pc = "done"
  /\ ~routeGet.err.nil /\ routeGet.err.kind = "Other"
  /\ authGet.err.nil /\ ~authConfig.nil
  /\ updateCalls = 1

\* ----------------------------------------------------- claims on the route

\* The desired route spec, as the spec's data model states it.
DesiredServiceName == "oauth-openshift"
DesiredPort == [nil |-> FALSE, TargetPort |-> [Type |-> "Int", IntVal |-> 6443, StrVal |-> ""]]
DesiredTermination == "passthrough"
DesiredInsecurePolicy == "Redirect"

\* The route's spec differs from the desired one in one of the four fields.
Diverges(r) ==
  \/ r.ToName # DesiredServiceName
  \/ r.Port # DesiredPort
  \/ r.TLS.nil
  \/ r.TLS.Termination # DesiredTermination
  \/ r.TLS.InsecureEdgeTerminationPolicy # DesiredInsecurePolicy

\* The route's spec mismatches the desired one: another service name, no
\* port or a port with another integer value, no TLS, another termination
\* or another insecure-edge policy.
Mismatches(r) ==
  \/ r.ToName # DesiredServiceName
  \/ r.Port.nil
  \/ (r.Port.TargetPort.Type = "Int" /\ r.Port.TargetPort.IntVal # 6443)
  \/ (r.Port.TargetPort.Type = "String" /\ r.Port.TargetPort.StrVal # "6443")
  \/ r.TLS.nil
  \/ r.TLS.Termination # DesiredTermination
  \/ r.TLS.InsecureEdgeTerminationPolicy # DesiredInsecurePolicy

\* Some status entry of the route has the desired host and Admitted=True.
AdmittedAtDesiredHost(r) ==
  \E i \in 1..Len(r.Ingress) :
    /\ r.Ingress[i].Host = <<"oauth-openshift", ".", ingress.Domain>>
    /\ \E k \in 1..Len(r.Ingress[i].Conditions) :
         /\ r.Ingress[i].Conditions[k].Type = "Admitted"
         /\ r.Ingress[i].Conditions[k].Status = "True"

DeleteIssuedFor(r) ==
  \E i \in 1..Len(calls) : calls[i] = [op |-> "Delete", uid |-> r.UID]
NoDeleteIssued == \A i \in 1..Len(calls) : calls[i].op # "Delete"
ReturnsOnlyError == ~ret.err.nil /\ ret.route.nil /\ ret.secret.nil

\* C5. Spec drift, for a route that passed the admission gate handleRoute
\* applies first: whenever the route handleRoute got is admitted at the
\* desired host and its spec mismatches the desired one in service name,
\* port, TLS termination or insecure-edge policy, the run issues a delete
\* with the route's UID as precondition and returns an error, no route and
\* no bundle.
C5_SpecDriftOfAdmittedRoute ==
  (rpc = "idle" /\ ~observed.nil /\ AdmittedAtDesiredHost(observed) /\ Mismatches(observed))
  => (DeleteIssuedFor(observed) /\ ReturnsOnlyError)

\* An admitted route with the right service name and no port has been
\* handled: validation panicked on the nil port, no delete was issued and
\* the route is still there.
C5_Witness ==
  /\ rpc = "idle"
  /\ ~observed.nil
  /\ AdmittedAtDesiredHost(observed)
  /\ observed.ToName = DesiredServiceName
  /\ observed.Port.nil
  /\ ret.err.kind = "panic"
  /\ NoDeleteIssued
  /\ ~routeStore.nil

\* A route with the four fields of the desired spec exists.
DesiredRouteExists ==
  /\ ~routeStore.nil
  /\ routeStore.ToName = DesiredServiceName
  /\ ~routeStore.Port.nil
  /\ IntValue(routeStore.Port.TargetPort) = 6443
  /\ ~routeStore.TLS.nil
  /\ routeStore.TLS.Termination = DesiredTermination
  /\ routeStore.TLS.InsecureEdgeTerminationPolicy = DesiredInsecurePolicy

\* C6. Self-healing across cycles, for a route that passed the admission
\* gate: from any route that is admitted at the desired host and whose spec
\* mismatches the desired one, with succeeding API calls and recurring
\* cycles, a route with the desired four fields eventually exists.
C6_SelfHealingOfAdmittedRoute ==
  (~routeStore.nil /\ AdmittedAtDesiredHost(routeStore) /\ Mismatches(routeStore))
    ~> DesiredRouteExists

\* The cycle has run on the admitted route with the right service name and
\* no port, and left it as it found it: the panic of validation is all that
\* came of the run.
C6_Witness ==
  /\ rpc = "idle"
  /\ ~routeStore.nil
  /\ routeStore = observed
  /\ AdmittedAtDesiredHost(routeStore)
  /\ routeStore.ToName = DesiredServiceName
  /\ routeStore.Port.nil
  /\ calls = <<[op |-> "Get", uid |-> 0]>>
  /\ ret.err.kind = "panic"

\* C11 as stated. Deletion is the only mutating call: the reconciler issues
\* no call that changes the API server's routes other than a delete.
C11_StatedDeletionOnly ==
  \A i \in 1..Len(calls) : calls[i].op \in {"Get", "GetSecret", "Delete"}

\* C11 amended. Create and delete are the only mutating calls: in every cycle
\* the reconciler issues gets, at most a create of the desired route when no
\* route exists, and at most a delete; it issues no update. A run of the
\* reconciler leaves the stored route as it is, removes it (after issuing a
\* delete with its UID), or, when there was none, stores the newly created
\* desired route: no field of a live route is ever edited.
C11_CreateAndDeleteOnly ==
  /\ [](\A i \in 1..Len(calls) :
          calls[i].op \in {"Get", "GetSecret", "Create", "Delete"})
  /\ [][HandleRoute =>
          \/ routeStore' = routeStore
          \/ /\ ~routeStore.nil
             /\ routeStore'.nil
             /\ \E i \in 1..Len(calls') :
                  calls'[i] = [op |-> "Delete", uid |-> routeStore.UID]
          \/ /\ routeStore.nil
             /\ ~routeStore'.nil
             /\ routeStore'.UID = nextUID
             /\ [routeStore' EXCEPT !.UID = 0]
                  = [nil |-> FALSE, Name |-> "oauth-openshift", UID |-> 0,
                     Host |-> <<"oauth-openshift", ".", ingress.Domain>>,
                     ToName |-> DesiredServiceName, Port |-> DesiredPort,
                     TLS |-> [nil |-> FALSE, Termination |-> DesiredTermination,
                              InsecureEdgeTerminationPolicy |-> DesiredInsecurePolicy],
                     Ingress |-> <<>>]
             /\ \E i \in 1..Len(calls') : calls'[i].op = "Create"]_vars

\* A cycle found no route and created the desired one, which no router has
\* admitted yet.
C11_Witness ==
  /\ calls = <<[op |-> "Get", uid |-> 0], [op |-> "Create", uid |-> 0]>>
  /\ ~routeStore.nil
  /\ routeStore.UID = 2
  /\ routeStore.Ingress = <<>>
  /\ ~ret.err.nil

\* ------------------------------------------------ further claims on the sync

\* C12. Skip verification: with an authentication config that names a custom
\* metadata source, or whose type is not IntegratedOAuth, the cycle never
\* looks up the service or the endpoints and never probes; verification, when
\* it runs, returns ready with no message and no error; the conditions handed
\* over are Available=True and Progressing=False.
C12_SkipVerification ==
  (~authConfig.nil
   /\ (authConfig.OAuthMetadataName # "" \/ authConfig.Type # "IntegratedOAuth"))
  => /\ pc \notin {"getService", "getEndpoints", "probe"}
     /\ targetPort = 0 /\ ipsErr.nil /\ ~kasEndpoint.found
     /\ ips = <<>> /\ probes = <<>>
     /\ (pc \in {"aggregate", "done"} /\ ~route.nil)
          => verdict = [ready |-> TRUE, msg |-> <<>>, err |-> NilErr]
     /\ pc = "done"
          => /\ Handed(WellKnownAvailable).Status = ConditionTrue
             /\ Handed(WellKnownProgressing).Status = ConditionFalse
             /\ updateCalls = 1

\* A cycle ended for a config of type None without a metadata reference and
\* an existing route.
C12_Witness ==
  /\ pc = "done"
  /\ ~authConfig.nil /\ authConfig.Type = "None" /\ authConfig.OAuthMetadataName = ""
  /\ ~route.nil
  /\ verdict.ready
  /\ probes = <<>>

\* The list the aggregation owes for the findings: the four known types in
\* sorted order, each with its first finding or else its default.
ExpectedList(found) ==
  [i \in 1..4 |->
     LET t == <<WellKnownAuthConfigDegraded, WellKnownAvailable,
                WellKnownProgressing, WellKnownRouteDegraded>>[i]
     IN IF \E j \in 1..Len(found) : found[j].Type = t
        THEN found[CHOOSE j \in 1..Len(found) :
                     /\ found[j].Type = t
                     /\ \A k \in 1..(j - 1) : found[k].Type # t]
        ELSE [Type |-> t,
              Status |-> IF t = WellKnownAvailable THEN "True" ELSE "False",
              Reason |-> "", Message |-> <<>>]]

\* C13. Idempotence of aggregation: the list handed over is a function of
\* this cycle's findings alone (same types in the same order, same status,
\* reason and message); aggregating the same findings again, or aggregating
\* the list itself, yields the identical list; a new cycle starts with no
\* finding and no list left from the previous one.
C13_AggregationIdempotent ==
  /\ pc = "done" =>
       /\ updateConditionFuncs = ExpectedList(foundConditions)
       /\ aggregate(foundConditions) = updateConditionFuncs
       /\ aggregate(updateConditionFuncs) = updateConditionFuncs
  /\ pc = "idle" => (foundConditions = <<>> /\ updateConditionFuncs = <<>>)

\* A cycle in which both lookups failed has handed over its list: two
\* findings, two defaults.
C13_Witness ==
  /\ pc = "done"
  /\ Len(foundConditions) = 2
  /\ foundConditions[1].Type = WellKnownAuthConfigDegraded
  /\ foundConditions[2].Type = WellKnownRouteDegraded
  /\ updateCalls = 1

\* What a single probe owes for an answer, by the four cases of C14 (and an
\* error for a 200 whose body cannot be read or parsed).
ProbeClass(resp, host) ==
  IF resp.transportErr THEN "error"
  ELSE IF resp.StatusCode # 200 THEN "message"
  ELSE IF ~resp.Body.readable \/ ~resp.Body.valid THEN "error"
  ELSE IF resp.Body.values = MetadataDoc(host) THEN "ready"
  ELSE "message"

\* C14. Probe outcome classification: for every request of the cycle, a
\* transport failure gives (not ready, error); a status other than 200 gives
\* (not ready, message, no error); a 200 with the expected document gives
\* (ready, no message, no error); a 200 with another document gives (not
\* ready, message, no error). Ready never comes with an error or a message.
C14_ProbeClassification ==
  \A i \in 1..Len(probes) :
    LET v == checkWellknownEndpointReady(probes[i].ip, probes[i].resp, route)
        class == ProbeClass(probes[i].resp, route.Host)
    IN /\ class = "error" => (~v.ready /\ ~v.err.nil /\ v.msg = <<>>)
       /\ class = "message" => (~v.ready /\ v.err.nil /\ Len(v.msg) > 0)
       /\ class = "ready" => (v.ready /\ v.err.nil /\ v.msg = <<>>)
       /\ v.ready => (v.err.nil /\ v.msg = <<>>)
       /\ (i = Len(probes) /\ class # "ready" /\ pc \in {"aggregate", "done"})
            => verdict = v

\* A cycle ended on an address that answered 503: not ready, with the status
\* line in the message and no error.
C14_Witness ==
  /\ pc = "done"
  /\ Len(probes) = 2
  /\ probes[2].resp.StatusCode = 503
  /\ ~verdict.ready
  /\ verdict.err.nil
  /\ verdict.msg[2] = "503 Service Unavailable"

\* C16. First-match-wins subset policy: address resolution decides on the
\* first subset, in list order, with a TCP port equal to the target port.
\* When that subset has a not-ready address or no ready address the answer
\* is the not-ready error, whatever the later subsets hold; otherwise it is
\* that subset's ready addresses, each with the target port, in order. With
\* no such subset the answer is the port-not-found error.
C16_FirstMatchWins ==
  kasEndpoint.found =>
    IF HasTargetSubset(kasEndpoint, targetPort) THEN
      LET first == FirstTargetSubset(kasEndpoint, targetPort)
      IN IF Len(first.NotReadyAddresses) > 0 \/ Len(first.Addresses) = 0 THEN
           /\ ips = <<>>
           /\ ~ipsErr.nil
           /\ ipsErr.text[1] = "kube api server endpointLister is not ready: "
         ELSE
           /\ ipsErr.nil
           /\ ips = [j \in 1..Len(first.Addresses) |->
                       [IP |-> first.Addresses[j], Port |-> targetPort]]
    ELSE
      /\ ips = <<>>
      /\ ~ipsErr.nil
      /\ ipsErr.text[1] = "unable to find kube api server endpointLister port: "

\* Two subsets with the target port: the first has a not-ready address, the
\* second is fully ready, and resolution has answered not ready.
C16_Witness ==
  /\ kasEndpoint.found
  /\ Len(kasEndpoint.Subsets) = 2
  /\ \A i \in 1..2 : kasEndpoint.Subsets[i].Ports[1] = [Port |-> targetPort, Protocol |-> "TCP"]
  /\ Len(kasEndpoint.Subsets[1].NotReadyAddresses) = 1
  /\ Len(kasEndpoint.Subsets[2].NotReadyAddresses) = 0
  /\ Len(kasEndpoint.Subsets[2].Addresses) = 2
  /\ ~ipsErr.nil
  /\ ips = <<>>

\* ----------------------------------------------- further claims on the route

NoCallOf(op) == \A i \in 1..Len(calls) : calls[i].op # op

\* C15. Admission gate: handleRoute returns a route only if some status entry
\* of the observed route has the desired host and, in that entry, an Admitted
\* condition with status True. With no such entry it returns the
\* not-available error and no route, and issues neither a delete nor a Get of
\* the router secret, whatever the route's spec.
C15_AdmissionGate ==
  /\ (~observed.nil /\ ~AdmittedAtDesiredHost(observed))
       => /\ rpc = "idle"
          /\ ReturnsOnlyError
          /\ ret.err.text[1] = "route is not available at canonical host "
          /\ NoCallOf("Delete")
          /\ NoCallOf("GetSecret")
  /\ ~ret.route.nil
       => /\ AdmittedAtDesiredHost(observed)
          /\ ret.route.Host = <<"oauth-openshift", ".", ingress.Domain>>

\* A route whose spec diverges, with the desired host in an entry that is
\* not admitted and an admitted entry for another host, was turned away.
C15_Witness ==
  /\ ~observed.nil
  /\ Diverges(observed)
  /\ Len(observed.Ingress) = 2
  /\ observed.Ingress[1].Host = <<"oauth-openshift", ".", ingress.Domain>>
  /\ observed.Ingress[1].Conditions = <<[Type |-> "Admitted", Status |-> "False"]>>
  /\ observed.Ingress[2].Host # <<"oauth-openshift", ".", ingress.Domain>>
  /\ observed.Ingress[2].Conditions = <<[Type |-> "Admitted", Status |-> "True"]>>
  /\ calls = <<[op |-> "Get", uid |-> 0]>>
  /\ ReturnsOnlyError

\* The route passes spec validation: the four fields of the desired spec,
\* the port by its integer value.
PassesValidation(r) ==
  /\ r.ToName = DesiredServiceName
  /\ ~r.Port.nil
  /\ IntValue(r.Port.TargetPort) = 6443
  /\ ~r.TLS.nil
  /\ r.TLS.Termination = DesiredTermination
  /\ r.TLS.InsecureEdgeTerminationPolicy = DesiredInsecurePolicy

\* C17. Certificate bundle step: the router secret is fetched only for a
\* route that passed admission and validation, and then no delete is issued;
\* a run that returns no error returns the route and a secret with data; a
\* run that returns an error returns neither route nor secret. An absent or
\* empty secret therefore ends in an error with no route and no bundle.
C17_CertificateBundleStep ==
  /\ (rpc = "secret" \/ ~NoCallOf("GetSecret"))
       => /\ ~observed.nil
          /\ AdmittedAtDesiredHost(observed)
          /\ PassesValidation(observed)
          /\ NoCallOf("Delete")
  /\ ~NoCallOf("GetSecret")
       => /\ rpc = "idle"
          /\ calls[Len(calls)].op = "GetSecret"
          /\ \/ /\ ret.err.nil
                /\ ~ret.secret.nil /\ ret.secret.Data # {}
                /\ ~ret.route.nil /\ ret.route.UID = observed.UID
             \/ /\ ReturnsOnlyError
                /\ \/ ret.err.kind = "NotFound"
                   \/ ret.err.text = <<"router secret is empty">>
  /\ (rpc = "idle" /\ calls # <<>>)
       => /\ ret.err.nil <=> (~ret.route.nil /\ ~ret.secret.nil)
          /\ ~ret.err.nil => (ret.route.nil /\ ret.secret.nil)
          /\ ret.err.nil => ~NoCallOf("GetSecret")

\* An admitted, valid route whose router secret has no data: the run ended
\* in the empty-secret error after the Get of the secret.
C17_Witness ==
  /\ ~observed.nil
  /\ AdmittedAtDesiredHost(observed)
  /\ calls = <<[op |-> "Get", uid |-> 0], [op |-> "GetSecret", uid |-> 0]>>
  /\ ret.err.text = <<"router secret is empty">>
  /\ ret.route.nil /\ ret.secret.nil
  /\ ~routeStore.nil

\* C18. Failures are reported only through conditions: sync returns an error
\* only when the status update failed, and then it is the update's error;
\* the status update has run exactly once when the cycle ends, and not before,
\* whatever the lookups, the address resolution and the probes produced.
C18_FailuresOnlyThroughConditions ==
  /\ pc = "done" => updateCalls = 1
  /\ pc # "done" => (updateCalls = 0 /\ syncErr.nil)
  /\ ~syncErr.nil => (pc = "done" /\ syncErr.kind = "Conflict")

\* A cycle whose probe failed in the transport ended with a status update
\* that succeeded: sync returned nil.
C18_Witness ==
  /\ pc = "done"
  /\ ~verdict.err.nil
  /\ probes # <<>>
  /\ probes[Len(probes)].resp.transportErr
  /\ syncErr.nil
  /\ updateCalls = 1

\* C19. Mutual consistency of the final conditions: in the list handed over
\* at the end of every cycle, Progressing is True exactly when Available is
\* False; each of the two is True or False.
C19_ProgressingIffNotAvailable ==
  pc = "done" =>
    /\ Handed(WellKnownProgressing).Status \in {"True", "False"}
    /\ Handed(WellKnownAvailable).Status \in {"True", "False"}
    /\ Handed(WellKnownProgressing).Status = "True"
         <=> Handed(WellKnownAvailable).Status = "False"

\* A cycle ended on a document mismatch: Progressing True, Available False.
C19_Witness ==
  /\ pc = "done"
  /\ probes # <<>>
  /\ verdict.err.nil
  /\ ~verdict.ready
  /\ verdict.msg[1] = "the value returned by the well-known "
  /\ Handed(WellKnownProgressing).Status = "True"
  /\ Handed(WellKnownAvailable).Status = "False"

\* C20. No create/delete oscillation: a route the reconciler created (the
\* API server gave it a UID of 2 or more) has the desired spec and passes
\* validation; no delete is ever issued for it, and it stays in place with
\* its UID in every later step, admitted or not, whether the API calls
\* succeed or fail.
C20_NoOscillation ==
  /\ [](\A i \in 1..Len(calls) : calls[i].op = "Delete" => calls[i].uid = 1)
  /\ []((~routeStore.nil /\ routeStore.UID >= 2)
          => (PassesValidation(routeStore) /\ ~Diverges(routeStore)))
  /\ [][(~routeStore.nil /\ routeStore.UID >= 2)
          => (~routeStore'.nil /\ routeStore'.UID = routeStore.UID)]_vars

\* The created route was admitted, and a later cycle accepted it and
\* returned it with the router secret.
C20_Witness ==
  /\ routeStore.UID = 2
  /\ AdmittedAtDesiredHost(routeStore)
  /\ calls = <<[op |-> "Get", uid |-> 0], [op |-> "GetSecret", uid |-> 0]>>
  /\ ret.err.nil
  /\ ret.route.UID = 2

====
